---- MODULE Spec2Model ----
(***************************************************************************)
(* A model of the week-plan view of src/src/main.ts (class WeekplanView).  *)
(*                                                                         *)
(* The state is the view's in-memory document (yamlData), the text of the  *)
(* file it edits, the raw-text editor, the calendar widget's own event     *)
(* collection, the draggable items of the left panel, and the asynchronous *)
(* work in flight (external sync processes, the host's delivery of a       *)
(* modified file to setViewData).                                          *)
(*                                                                         *)
(* The view always has its file (Obsidian sets this.file before it loads    *)
(* the view), so the guards on this.file are not modelled.  On an instant   *)
(* disk a write (vault.modify) takes effect where the handler issues it;    *)
(* on a slow disk (SpecAwait) the write is in flight, its handler is        *)
(* suspended at the await, and the write resolves or is rejected in a       *)
(* later turn, where the handler goes on.  After a write the host calls     *)
(* setViewData with the text of the file, and does so before the user's     *)
(* next gesture.  The completion of an external sync process can come at    *)
(* any moment.  A session is a bounded number of gestures of the user;      *)
(* each handler's run is recorded in last (what it was applied to, the      *)
(* notice it showed, the texts it passed to vault.modify).                  *)
(*                                                                         *)
(* JavaScript objects are functions from field names to values: a field    *)
(* that an object lacks is not in its DOMAIN.  {...a, ...b} is b @@ a.     *)
(* Times are counted in ticks of a quarter of an hour.  Identifiers are    *)
(* tuples, so that taskId + '_' + Date.now() is Append(taskId, now).       *)
(***************************************************************************)
EXTENDS Integers, Sequences, FiniteSets, TLC

VARIABLES
    yamlData,      \* this.yamlData: the in-memory document
    file,          \* the text stored in this.file
    isSourceMode,  \* this.isSourceMode
    sourceValue,   \* this.sourceContainer.value: the raw-text buffer
    calendar,      \* the calendar widget's event collection
    leftPanel,     \* the left panel's task items, as last rendered
    pendingLoad,   \* the file was modified and the host has yet to call setViewData
    awaiting,      \* the writes in flight, oldest first, each with the handler
                   \* that is suspended at its await
    slowDisk,      \* a write takes time: it resolves or fails in a later turn
    syncing,       \* external sync processes started and not yet completed
    now,           \* Date.now(), counted in gestures
    session,       \* the number of gestures the user makes in this session
    last           \* the handler that ran last: its name, target, notice, writes

vars == <<yamlData, file, isSourceMode, sourceValue, calendar, leftPanel,
          pendingLoad, awaiting, slowDisk, syncing, now, session, last>>

----------------------------------------------------------------------------
(* Bounds of the model *)

\* the events list never grows beyond this many entries
MaxEvents == 2
\* the number of gestures of the user (Date.now() moves with each)
MaxClock == 3
\* the number of gestures of a planning session that starts from a fresh plan
MaxPlanClock == 4
\* external sync processes in flight at once
MaxSync == 1
\* the number of tasks a document holds at most
MaxTasks == 3
MaxAwaitClock == 2
MaxOverlap == 2

----------------------------------------------------------------------------
(* Values *)

\* (1000 * 60 * 60) ms, in ticks of a quarter of an hour
TicksPerHour == 4
\* Math.max(0.25, ...) hours, in ticks
MinDropTicks == 1
\* a missing or empty time is falsy; every real time is a positive tick
NoTime == 0

DropColor == "#10b981"
DefaultColor == "#3b82f6"

Statuses == {"pool", "partial", "scheduled", "completed", "dropped"}

T1 == <<"t", 1>>
T2 == <<"t", 2>>
O1 == <<"o", 1>>
O2 == <<"o", 2>>

Has(o, k) == k \in DOMAIN o
\* o.k || d
Get(o, k, d) == IF Has(o, k) THEN o[k] ELSE d

Max(a, b) == IF a >= b THEN a ELSE b

\* the constructor's document, also the default of setViewData and clear
Skeleton == [insight |-> "", goals |-> <<>>, events |-> <<>>]

\* the items of every role, in document order
RECURSIVE AllTasks(_)
AllTasks(goals) ==
    IF goals = <<>> THEN <<>>
    ELSE Get(Head(goals), "items", <<>>) \o AllTasks(Tail(goals))

Goals(doc) == Get(doc, "goals", <<>>)
Events(doc) == Get(doc, "events", <<>>)
Tasks(doc) == AllTasks(Goals(doc))

----------------------------------------------------------------------------
(* The text format: yaml.dump and yaml.load *)

\* yaml.dump(doc): the engine's own serialization of a document
Dump(doc) == [doc |-> doc, fmt |-> "dump"]
\* text typed by the user that parses to doc, with the user's formatting
UserText(doc) == [doc |-> doc, fmt |-> "user"]
\* text with a syntax error: yaml.load throws
InvalidText == [fmt |-> "invalid"]
\* the empty text: yaml.load returns undefined
EmptyText == [fmt |-> "empty"]

\* a slip: the text is not checked
Parses_Unchecked(text) == TRUE


\* yaml.load(text) returns
Parses(text) == text.fmt # "invalid"
\* yaml.load(data) || { insight: "", goals: [], events: [] }
Load(text) == IF Has(text, "doc") THEN text.doc ELSE Skeleton

----------------------------------------------------------------------------
(* The Status Reconciler: updateTaskStatuses *)

\* (end - start) / (1000 * 60 * 60) when ev.start && ev.end, in ticks
EventTicks(ev) ==
    IF Get(ev, "start", NoTime) # NoTime /\ Get(ev, "end", NoTime) # NoTime
    THEN ev.end - ev.start
    ELSE 0

\* a slip: the time of an event replaces the total instead of adding to it
RECURSIVE TaskHours_Overwrite(_, _)
TaskHours_Overwrite(events, id) ==
    IF events = <<>> THEN 0
    ELSE LET ev == events[Len(events)]
         IN IF /\ Get(ev, "type", "") = "task"
               /\ Get(ev, "taskId", ev.id) = id
               /\ Has(ev, "start") /\ Has(ev, "end")
            THEN ev.end - ev.start
            ELSE TaskHours_Overwrite(SubSeq(events, 1, Len(events) - 1), id)

\* taskHours.get(id) || 0: the time of the type=task events keyed ev.taskId || ev.id
RECURSIVE TaskHours(_, _)
TaskHours(events, id) ==
    IF events = <<>> THEN 0
    ELSE LET ev == Head(events)
         IN (IF Get(ev, "type", "") = "task" /\ Get(ev, "taskId", ev.id) = id
             THEN EventTicks(ev) ELSE 0)
            + TaskHours(Tail(events), id)

\* parseFloat(task.estimated_hours) || 1, in ticks
Estimated(task) ==
    LET v == Get(task, "estimated_hours", 0)
    IN IF v = 0 THEN TicksPerHour ELSE v

\* a slip in the comparison: a task scheduled for exactly its estimate stays partial
DerivedStatus_Strict(totalScheduled, estimated) ==
    IF totalScheduled = 0 THEN "pool"
    ELSE IF totalScheduled <= estimated THEN "partial"
    ELSE "scheduled"

\* a slip: any scheduled time counts as enough
DerivedStatus_NoPartial(totalScheduled, estimated) ==
    IF totalScheduled = 0 THEN "pool" ELSE "scheduled"

\* the three automatic statuses
DerivedStatus(totalScheduled, estimated) ==
    IF totalScheduled = 0 THEN "pool"
    ELSE IF totalScheduled < estimated THEN "partial"
    ELSE "scheduled"

\* a slip: the early return for dropped and completed tasks is missing
UpdateTask_NoSkip(task, events) ==
    ("status" :> DerivedStatus(TaskHours(events, task.id), Estimated(task)))
    @@ task

\* a slip: a run moves the status one step only (pool, partial, scheduled)
\* toward the derived one
UpdateTask_Step(task, events) ==
    LET rank == [pool |-> 0, partial |-> 1, scheduled |-> 2]
        name == <<"pool", "partial", "scheduled">>
        cur == IF Get(task, "status", "pool") \in DOMAIN rank
               THEN rank[Get(task, "status", "pool")] ELSE 0
        der == rank[DerivedStatus(TaskHours(events, task.id), Estimated(task))]
        nxt == IF cur < der THEN cur + 1 ELSE IF cur > der THEN cur - 1 ELSE cur
    IN IF Get(task, "status", "") \in {"dropped", "completed"} THEN task
       ELSE ("status" :> name[nxt + 1]) @@ task

\* the body of role.items.forEach: dropped and completed tasks are skipped
UpdateTask(task, events) ==
    IF Get(task, "status", "") \in {"dropped", "completed"} THEN task
    ELSE ("status" :> DerivedStatus(TaskHours(events, task.id), Estimated(task)))
         @@ task

UpdateRole(role, events) ==
    IF ~Has(role, "items") THEN role
    ELSE [role EXCEPT !.items = [i \in DOMAIN @ |-> UpdateTask(@[i], events)]]

updateTaskStatuses(doc) ==
    IF ~Has(doc, "goals") THEN doc
    ELSE [doc EXCEPT !.goals = [i \in DOMAIN @ |-> UpdateRole(@[i], Events(doc))]]

----------------------------------------------------------------------------
(* The calendar widget and the left panel, as setViewData fills them *)

\* the argument of calendar.addEvent for one document event
WidgetEvent(ev) ==
    [id |-> ev.id,
     title |-> Get(ev, "title", ""),
     start |-> ev.start,
     backgroundColor |-> Get(ev, "color", DefaultColor),
     taskId |-> Get(ev, "taskId", ev.id)]
    @@ (IF Has(ev, "end") THEN [end |-> ev.end] ELSE <<>>)
    @@ (IF Has(ev, "type") THEN [type |-> ev.type] ELSE <<>>)

\* a slip: calendar.removeAllEvents() is missing
WidgetEvents_Kept(doc) ==
    calendar \o [i \in DOMAIN Events(doc) |-> WidgetEvent(Events(doc)[i])]

\* the widget after removeAllEvents and one addEvent per document event
WidgetEvents(doc) == [i \in DOMAIN Events(doc) |-> WidgetEvent(Events(doc)[i])]

\* renderLeftPanel's totalScheduledHours: its own filter, e.taskId === id || e.id === id
RECURSIVE PanelHours(_, _)
PanelHours(events, id) ==
    IF events = <<>> THEN 0
    ELSE LET ev == Head(events)
         IN (IF /\ Get(ev, "type", "") = "task"
                /\ (Get(ev, "taskId", <<>>) = id \/ ev.id = id)
             THEN EventTicks(ev) ELSE 0)
            + PanelHours(Tail(events), id)

\* a slip: every task that is not completed or dropped can be dragged
PanelItem_AutoDraggable(task, events) ==
    LET total == IF task.status \in {"scheduled", "partial"}
                 THEN PanelHours(events, task.id) ELSE 0
    IN [id |-> task.id,
        title |-> task.title,
        draggable |-> task.status \notin {"completed", "dropped"},
        duration |-> Max(MinDropTicks, Estimated(task) - total)]

\* one task's list item: whether it is marked fc-event-draggable (pool or
\* partial), with its data-title and data-duration
PanelItem(task, events) ==
    LET total == IF task.status \in {"scheduled", "partial"}
                 THEN PanelHours(events, task.id) ELSE 0
    IN [id |-> task.id,
        title |-> task.title,
        draggable |-> task.status \in {"pool", "partial"},
        duration |-> Max(MinDropTicks, Estimated(task) - total)]

\* renderLeftPanel: one item per task, in document order
Panel(doc) == [i \in DOMAIN Tasks(doc) |-> PanelItem(Tasks(doc)[i], Events(doc))]

----------------------------------------------------------------------------
(* The Event Change Handler: handleEventChange *)

\* one step of the stable sort by start
RECURSIVE InsertByStart(_, _)
InsertByStart(ev, sorted) ==
    IF sorted = <<>> THEN <<ev>>
    ELSE IF Head(sorted).start <= ev.start
         THEN <<Head(sorted)>> \o InsertByStart(ev, Tail(sorted))
         ELSE <<ev>> \o sorted

\* a slip: the list is left in the order of the update or push
SortByStart_None(events) == events

\* events.sort((a, b) => new Date(a.start) - new Date(b.start)): stable
RECURSIVE SortByStart(_)
SortByStart(events) ==
    IF events = <<>> THEN <<>>
    ELSE InsertByStart(events[Len(events)],
                       SortByStart(SubSeq(events, 1, Len(events) - 1)))

\* events.findIndex(e => e.id === id), 0 for -1
RECURSIVE FindIndex(_, _, _)
FindIndex(events, id, i) ==
    IF i > Len(events) THEN 0
    ELSE IF events[i].id = id THEN i
    ELSE FindIndex(events, id, i + 1)

\* a slip: the block is linked to its own id, not to the task it was dragged from
NewEventData_OwnId(event) ==
    [id |-> event.id,
     taskId |-> event.id,
     type |-> "task",
     title |-> event.title,
     start |-> event.start,
     end |-> IF Has(event, "end") THEN event.end
             ELSE event.start + TicksPerHour,
     color |-> Get(event, "backgroundColor", DropColor)]

\* a slip: an event with no end is stored with no length
NewEventData_Instant(event) ==
    [id |-> event.id,
     taskId |-> Get(event, "taskId", event.id),
     type |-> "task",
     title |-> event.title,
     start |-> event.start,
     end |-> IF Has(event, "end") THEN event.end ELSE event.start,
     color |-> Get(event, "backgroundColor", DropColor)]

\* newEventData, from the widget's event; formatLocalISO keeps the minute, and
\* every time of the model is a whole tick
NewEventData(event) ==
    [id |-> event.id,
     taskId |-> Get(event, "taskId", event.id),
     type |-> "task",
     title |-> event.title,
     start |-> event.start,
     end |-> IF Has(event, "end") THEN event.end
             ELSE event.start + TicksPerHour,
     color |-> Get(event, "backgroundColor", DropColor)]

\* a slip: a stored event is written over the head of the list, not over the
\* entry that was found
ChangedEvents_Head(events, event) ==
    LET eventIndex == FindIndex(events, event.id, 1)
    IN IF eventIndex >= 1
       THEN [events EXCEPT ![1] = NewEventData(event) @@ @]
       ELSE Append(events, NewEventData(event))

\* the events list after the update in place or the push
ChangedEvents(events, event) ==
    LET eventIndex == FindIndex(events, event.id, 1)
    IN IF eventIndex >= 1
       THEN [events EXCEPT ![eventIndex] = NewEventData(event) @@ @]
       ELSE Append(events, NewEventData(event))

\* a slip: the statuses are not derived again before the write
handleEventChange_NoReconcile(doc, event) ==
    [doc EXCEPT !.events = SortByStart(ChangedEvents(@, event))]

\* the document after handleEventChange; findIndex on a missing events list throws
handleEventChange(doc, event) ==
    updateTaskStatuses(
        [doc EXCEPT !.events = SortByStart(ChangedEvents(@, event))])

----------------------------------------------------------------------------
(* Block deletion (eventClick) and the manual status cycle (iconSpan click) *)

\* events.filter(e => e.id !== id), then updateTaskStatuses
deleteEvent(doc, id) ==
    updateTaskStatuses(
        [doc EXCEPT !.events = SelectSeq(@, LAMBDA e : e.id # id)])

\* a slip: a completed task goes straight back to pool
cycleStatus_NoDropped(doc, g, i) ==
    LET status == Get(doc.goals[g].items[i], "status", "")
        set(s) == [doc EXCEPT !.goals[g].items[i] = ("status" :> s) @@ @]
    IN IF status \in {"completed", "dropped"} THEN updateTaskStatuses(set("pool"))
       ELSE set("completed")

\* a slip: a dropped task is made pool and the statuses are not derived again
cycleStatus_PoolOnly(doc, g, i) ==
    LET status == Get(doc.goals[g].items[i], "status", "")
        set(s) == [doc EXCEPT !.goals[g].items[i] = ("status" :> s) @@ @]
    IN IF status = "completed" THEN set("dropped")
       ELSE IF status = "dropped" THEN set("pool")
       ELSE set("completed")

\* the click on the icon of item i of role g
cycleStatus(doc, g, i) ==
    LET status == Get(doc.goals[g].items[i], "status", "")
        set(s) == [doc EXCEPT !.goals[g].items[i] = ("status" :> s) @@ @]
    IN IF status = "completed" THEN set("dropped")
       ELSE IF status = "dropped" THEN updateTaskStatuses(set("pool"))
       ELSE set("completed")

----------------------------------------------------------------------------
(* The External Sync Merger: the callback of exec *)

\* a slip: the stored outlook events are kept
withoutOutlook_Keep(doc) == ("events" :> Events(doc)) @@ doc

\* a slip: the filter is inverted, and drops what is not an outlook event
withoutOutlook_Inverted(doc) ==
    ("events" :> SelectSeq(Events(doc), LAMBDA ev : Get(ev, "type", "") = "outlook"))
    @@ doc

\* a slip: the filter tests the id, not the type
withoutOutlook_ById(doc) ==
    ("events" :> SelectSeq(Events(doc), LAMBDA ev : ev.id # O1))
    @@ doc

\* if (!events) events = []; events = events.filter(ev => ev.type !== 'outlook')
withoutOutlook(doc) ==
    ("events" :> SelectSeq(Events(doc), LAMBDA ev : Get(ev, "type", "") # "outlook"))
    @@ doc

\* a slip: the batch is pushed onto the events as they are, outlook events included
mergeExternal_Appended(doc, newEvents) ==
    ("events" :> SortByStart(Events(doc) \o newEvents)) @@ doc

\* push(...newEvents), then the sort by start; the statuses are not re-derived
mergeExternal(doc, newEvents) ==
    [withoutOutlook(doc) EXCEPT !.events = SortByStart(@ \o newEvents)]

----------------------------------------------------------------------------
(* The documents a user can have on file or type in raw-text mode *)

TaskA(status) ==
    [id |-> T1, title |-> "A", estimated_hours |-> 2 * TicksPerHour,
     status |-> status]
\* a task with no estimate: one hour by default
TaskB(status) == [id |-> T2, title |-> "B", status |-> status]

\* a block of task A, as a drop writes it
BlockA(n, start, end) ==
    [id |-> Append(T1, n), taskId |-> T1, type |-> "task", title |-> "A",
     start |-> start, end |-> end, color |-> DropColor]
\* a block of an older schema: no taskId, its id is the task's, no color
LegacyB(start, end) ==
    [id |-> T2, type |-> "task", title |-> "B", start |-> start, end |-> end]
\* a block with no end
OpenA(start) ==
    [id |-> Append(T1, 0), taskId |-> T1, type |-> "task", title |-> "A",
     start |-> start]
\* a record of the external calendar
Outlook(id, start) ==
    [id |-> id, type |-> "outlook", title |-> "M", start |-> start,
     end |-> start + TicksPerHour]

UserGoals(sa, sb) == << [role |-> "r", items |-> <<TaskA(sa), TaskB(sb)>>] >>
UserDoc(sa, sb, events) ==
    [insight |-> "note", goals |-> UserGoals(sa, sb), events |-> events]

\* a fresh plan; plans whose statuses were typed by hand and do not follow from
\* the blocks; a plan whose events are out of order; a plan with no events field
UserDocs ==
    { UserDoc("pool", "pool", <<>>),
      UserDoc("scheduled", "pool", <<BlockA(0, 4, 8)>>),
      UserDoc("completed", "pool", <<Outlook(O1, 8), BlockA(0, 4, 12)>>),
      UserDoc("dropped", "pool", <<Outlook(O1, 4), Outlook(O2, 8), LegacyB(4, 8)>>),
      UserDoc("partial", "completed", <<OpenA(4)>>),
      [insight |-> "note", goals |-> UserGoals("pool", "pool")] }

\* what the file can hold when the view opens
InitTexts == {UserText(d) : d \in UserDocs} \cup {InvalidText, EmptyText}

\* what the user can turn the raw-text buffer into: a syntax error, nothing,
\* the same document in the user's own layout, another document
TypedTexts(text) ==
    {InvalidText, EmptyText, UserText(UserDoc("completed", "pool", <<BlockA(0, 4, 8)>>))}
    \cup (IF Has(text, "doc") THEN {UserText(text.doc)} ELSE {})

\* the lists of event records the external process can print
Batches ==
    { <<>>,
      <<Outlook(O1, 8)>>,
      <<Outlook(O2, 12), Outlook(O1, 4)>> }

\* how a run of the external process ends: a non-zero exit, output that is not
\* JSON, JSON that is not a list (a number), a list of event records
SyncOutcomes ==
    {[kind |-> k] : k \in {"execError", "notJson", "notList"}}
    \cup {[kind |-> "list", newEvents |-> b] : b \in Batches}

\* the slots a block can be dropped on or moved to
Slots == {4, 8}
\* the lengths a block can be resized to
Lengths == {TicksPerHour, 2 * TicksPerHour}

----------------------------------------------------------------------------
(* The state after construction *)

\* the record of a handler's run: writes lists the texts it passed to vault.modify
Ran(op, target, notice, writes) ==
    [op |-> op, target |-> target, notice |-> notice, writes |-> writes]
\* a run that wrote nothing
Last(op, target, notice) == Ran(op, target, notice, <<>>)
\* the run of a calendar callback: info.event.id is recorded with it
OnEvent(event, ran) == ran @@ [id |-> event.id]

Init ==
    /\ yamlData = Skeleton
    /\ file \in InitTexts
    /\ isSourceMode = FALSE
    /\ sourceValue = EmptyText
    /\ calendar = <<>>
    /\ leftPanel = <<>>
    /\ pendingLoad = TRUE
    /\ awaiting = <<>>
    /\ slowDisk = FALSE
    /\ syncing = 0
    /\ now = 0
    /\ session = MaxClock
    /\ last = Last("init", "", "")

\* await vault.modify(this.file, text) in handler op: the file holds text and
\* the host will deliver it; on a slow disk the write is in flight and the
\* handler is suspended
Write(op, text) ==
    IF slowDisk
    THEN /\ awaiting' = Append(awaiting, [op |-> op, text |-> text])
         /\ UNCHANGED <<file, pendingLoad>>
    ELSE /\ file' = text
         /\ pendingLoad' = TRUE
         /\ awaiting' = awaiting

\* the notice a handler shows after its await: at once when the write is
\* instant, when the write has resolved otherwise
Shown(notice) == IF slowDisk THEN "" ELSE notice

\* a gesture of the user: the host has delivered every earlier write (it does so
\* within the turn of the event loop that follows the write), and the clock moves
UserGesture ==
    /\ ~pendingLoad
    /\ awaiting = <<>>
    /\ now < session
    /\ now' = now + 1
    /\ session' = session
    /\ slowDisk' = slowDisk

----------------------------------------------------------------------------
(* setViewData: the host delivers the text of the file *)

\* a slip: the buffer is left as the user has it
Delivered_Kept(buffer, data) == buffer

\* if (this.sourceContainer.value !== data) this.sourceContainer.value = data
Delivered(buffer, data) == IF buffer # data THEN data ELSE buffer

SetViewData ==
    /\ pendingLoad
    /\ pendingLoad' = FALSE
    /\ IF isSourceMode
       THEN /\ sourceValue' = Delivered(sourceValue, file)
            /\ last' = Last("setViewData",
                            IF sourceValue # file THEN "replaced" ELSE "", "")
            /\ UNCHANGED <<yamlData, calendar, leftPanel>>
       ELSE IF ~Parses(file)
       THEN \* yaml.load throws before anything is assigned
            /\ last' = Last("setViewData", "", "")
            /\ UNCHANGED <<yamlData, calendar, leftPanel, sourceValue>>
       ELSE /\ yamlData' = Load(file)
            /\ calendar' = WidgetEvents(Load(file))
            /\ leftPanel' = Panel(Load(file))
            /\ last' = Last("setViewData", "", "")
            /\ UNCHANGED sourceValue
    /\ UNCHANGED <<file, isSourceMode, awaiting, syncing, now, session, slowDisk>>

----------------------------------------------------------------------------
(* The calendar's callbacks *)

TargetType(event) == Get(event, "type", "")

\* the common tail of eventReceive, eventDrop and eventResize: the widget holds
\* event, and handleEventChange(event) runs up to its write
Gesture(op, widget, event) ==
    /\ calendar' = widget
    /\ IF Has(yamlData, "events")
       THEN /\ Len(ChangedEvents(yamlData.events, event))
                 <= Max(MaxEvents, Len(yamlData.events))
            /\ yamlData' = handleEventChange(yamlData, event)
            /\ Write(op, Dump(yamlData'))
            /\ last' = OnEvent(event, Ran(op, TargetType(event), "",
                                          <<Dump(yamlData')>>))
       ELSE \* this.yamlData.events.findIndex throws
            /\ last' = OnEvent(event, Last(op, TargetType(event), ""))
            /\ UNCHANGED <<yamlData, file, pendingLoad, awaiting>>
    /\ UNCHANGED <<isSourceMode, sourceValue, leftPanel, syncing>>

\* a draggable item of the left panel is dropped on a slot
EventReceive ==
    /\ UserGesture
    /\ ~isSourceMode
    /\ \E i \in DOMAIN leftPanel, start \in Slots :
         LET item == leftPanel[i]
             event == [id |-> Append(item.id, now'),
                       title |-> item.title,
                       start |-> start,
                       end |-> start + item.duration,
                       backgroundColor |-> DropColor,
                       type |-> "task",
                       taskId |-> item.id]
         IN /\ item.draggable
            /\ Gesture("receive", Append(calendar, event), event)

\* a block of the widget is moved to another slot, keeping its length
EventDrop ==
    /\ UserGesture
    /\ ~isSourceMode
    /\ \E i \in DOMAIN calendar, start \in Slots :
         LET old == calendar[i]
             event == IF Has(old, "end")
                      THEN [old EXCEPT !.start = start,
                                       !.end = start + (old.end - old.start)]
                      ELSE [old EXCEPT !.start = start]
         IN /\ start # old.start
            /\ Gesture("drop", [calendar EXCEPT ![i] = event], event)

\* a block of the widget is resized to another length
EventResize ==
    /\ UserGesture
    /\ ~isSourceMode
    /\ \E i \in DOMAIN calendar, length \in Lengths :
         LET old == calendar[i]
             event == [end |-> old.start + length] @@ old
         IN /\ event # old
            /\ Gesture("resize", [calendar EXCEPT ![i] = event], event)

\* a slip: the answer to the dialog is not looked at
Confirmed_Always(answer) == TRUE

\* if (confirm(...)): the deletion goes on when the user has answered yes
Confirmed(answer) == answer

\* eventClick on a block of the widget; the user answers the confirm() dialog
EventClick ==
    /\ UserGesture
    /\ ~isSourceMode
    /\ \E i \in DOMAIN calendar, confirmed \in BOOLEAN :
         LET event == calendar[i]
         IN IF TargetType(event) = "outlook"
            THEN /\ confirmed
                 /\ last' = OnEvent(event, Last("click", "outlook", "fixed"))
                 /\ UNCHANGED <<yamlData, file, pendingLoad, awaiting>>
            ELSE IF Confirmed(confirmed) /\ Has(yamlData, "events")
            THEN /\ yamlData' = deleteEvent(yamlData, event.id)
                 /\ Write("click", Dump(yamlData'))
                 /\ last' = [answer |-> confirmed]
                            @@ OnEvent(event, Ran("click", TargetType(event),
                                                  Shown("deleted"),
                                                  <<Dump(yamlData')>>))
            ELSE \* declined, or this.yamlData.events.filter throws
                 /\ last' = [answer |-> confirmed]
                            @@ OnEvent(event, Last("click", TargetType(event), ""))
                 /\ UNCHANGED <<yamlData, file, pendingLoad, awaiting>>
    /\ UNCHANGED <<isSourceMode, sourceValue, calendar, leftPanel, syncing>>

----------------------------------------------------------------------------
(* The left panel's status icon *)

Rendered(id) == \E k \in DOMAIN leftPanel : leftPanel[k].id = id

StatusClick ==
    /\ UserGesture
    /\ ~isSourceMode
    /\ \E g \in DOMAIN Goals(yamlData) :
         \E i \in DOMAIN Get(yamlData.goals[g], "items", <<>>) :
            /\ Rendered(yamlData.goals[g].items[i].id)
            /\ yamlData' = cycleStatus(yamlData, g, i)
            /\ last' = Ran("status", yamlData.goals[g].items[i].id, "",
                          <<Dump(yamlData')>>)
    /\ Write("status", Dump(yamlData'))
    \* renderLeftPanel() follows the await
    /\ leftPanel' = IF slowDisk THEN leftPanel ELSE Panel(yamlData')
    /\ UNCHANGED <<isSourceMode, sourceValue, calendar, syncing>>

----------------------------------------------------------------------------
(* The add-task dialog of a role: TaskInputModal and the callback of addBtn *)

\* what the user can leave in the title field: a title, blanks, nothing
Titles == {"C", "  ", ""}
\* what the user can leave in the estimate field (it opens with "1.0"): a
\* number, nothing, letters, zero, a negative number
HourTexts == {"1.5", "", "abc", "0", "-2"}

\* resultTitle.trim()
Trim(title) == IF title \in {"  ", ""} THEN "" ELSE title

\* parseFloat(hoursStr), in ticks: <<n>> for a number, <<>> for NaN
ParseFloat(hoursStr) ==
    CASE hoursStr = "1.5" -> <<6>>
      [] hoursStr = "0" -> <<0>>
      [] hoursStr = "-2" -> <<0 - 2 * TicksPerHour>>
      [] OTHER -> <<>>

\* parseFloat(hoursStr) || 1.0: NaN and 0 are falsy
Hours(hoursStr) ==
    IF ParseFloat(hoursStr) \in {<<>>, <<0>>} THEN TicksPerHour
    ELSE ParseFloat(hoursStr)[1]

\* newTask, with id task-${Date.now()}
NewTask(title, hoursStr, clock) ==
    [id |-> <<"task", clock>>, title |-> title,
     estimated_hours |-> Hours(hoursStr), status |-> "pool"]

\* a slip: the submit button does not look at the title
Submits_Any(title) == TRUE

\* if (this.resultTitle.trim() !== "") this.onSubmit(...)
Submits(title) == Trim(title) # ""

\* if (!roleGroup.items) roleGroup.items = []; roleGroup.items.push(newTask)
addTask(doc, g, task) ==
    [doc EXCEPT !.goals[g] =
        ("items" :> Append(Get(@, "items", <<>>), task)) @@ @]

\* the dialog of role g is submitted; the panel is not rendered again
AddTask ==
    /\ UserGesture
    /\ ~isSourceMode
    /\ \E g \in DOMAIN Goals(yamlData), title \in Titles :
         IF Submits(title)
         THEN \E hoursStr \in HourTexts :
                /\ Len(Tasks(yamlData)) < MaxTasks
                /\ yamlData' = addTask(yamlData, g, NewTask(title, hoursStr, now'))
                /\ Write("addTask", Dump(yamlData'))
                /\ last' = Ran("addTask",
                              [role |-> g, title |-> title, hours |-> hoursStr],
                              Shown("added"), <<Dump(yamlData')>>)
         ELSE /\ last' = Last("addTask", [role |-> g, title |-> title], "")
              /\ UNCHANGED <<yamlData, file, pendingLoad, awaiting>>
    /\ UNCHANGED <<isSourceMode, sourceValue, calendar, leftPanel, syncing>>

----------------------------------------------------------------------------
(* The sync button and the callback of exec *)

SyncClick ==
    /\ UserGesture
    /\ syncing < MaxSync
    /\ syncing' = syncing + 1
    /\ last' = Last("syncClick", "", "fetching")
    /\ UNCHANGED <<yamlData, file, isSourceMode, sourceValue, calendar,
                   leftPanel, pendingLoad, awaiting>>

SyncDone ==
    /\ syncing > 0
    /\ syncing' = syncing - 1
    /\ \E out \in SyncOutcomes :
         CASE out.kind = "execError" ->
                /\ last' = Last("sync", out, "fetchFailed")
                /\ UNCHANGED <<yamlData, file, pendingLoad, awaiting>>
           [] out.kind = "notJson" ->
                \* JSON.parse throws
                /\ last' = Last("sync", out, "parseFailed")
                /\ UNCHANGED <<yamlData, file, pendingLoad, awaiting>>
           [] out.kind = "notList" ->
                \* push(...newEvents) throws, after the filter was assigned
                /\ yamlData' = withoutOutlook(yamlData)
                /\ last' = Last("sync", out, "parseFailed")
                /\ UNCHANGED <<file, pendingLoad, awaiting>>
           [] out.kind = "list" ->
                /\ yamlData' = mergeExternal(yamlData, out.newEvents)
                /\ Write("sync", Dump(yamlData'))
                /\ last' = Ran("sync", out, Shown("synced"), <<Dump(yamlData')>>)
    /\ UNCHANGED <<isSourceMode, sourceValue, calendar, leftPanel, now, session, slowDisk>>

----------------------------------------------------------------------------
(* The mode button and the raw-text editor *)

\* a slip: the parsed structure is serialized again
newText_Redumped(buffer) == Dump(Load(buffer))

\* const newText = this.sourceContainer.value: the text passed to vault.modify
newText(buffer) == buffer

ToggleMode ==
    /\ UserGesture
    /\ IF ~isSourceMode
       THEN /\ isSourceMode' = TRUE
            /\ sourceValue' = Dump(yamlData)
            /\ last' = Last("enterSource", "", "")
            /\ UNCHANGED <<file, pendingLoad, awaiting>>
       ELSE IF Parses(sourceValue)
       THEN /\ isSourceMode' = FALSE
            /\ Write("leaveSource", newText(sourceValue))
            /\ last' = Ran("leaveSource", "", "", <<newText(sourceValue)>>)
            /\ UNCHANGED sourceValue
       ELSE \* yaml.load throws: the catch sets isSourceMode back to true
            /\ last' = Last("leaveSource", "", "syntaxError")
            /\ UNCHANGED <<isSourceMode, sourceValue, file, pendingLoad, awaiting>>
    /\ UNCHANGED <<yamlData, calendar, leftPanel, syncing>>

\* the user edits the raw text
TypeText ==
    /\ UserGesture
    /\ isSourceMode
    /\ sourceValue' \in TypedTexts(sourceValue) \ {sourceValue}
    /\ last' = Last("type", "", "")
    /\ UNCHANGED <<yamlData, file, isSourceMode, calendar, leftPanel,
                   pendingLoad, awaiting, syncing>>

----------------------------------------------------------------------------

Next ==
    \/ SetViewData
    \/ EventReceive
    \/ EventDrop
    \/ EventResize
    \/ EventClick
    \/ StatusClick
    \/ AddTask
    \/ SyncClick
    \/ SyncDone
    \/ ToggleMode
    \/ TypeText

Spec == Init /\ [][Next]_vars

----------------------------------------------------------------------------
(* A longer session on one file: the view opens on a fresh plan *)

FreshPlan == UserDoc("pool", "pool", <<>>)

InitPlan ==
    /\ yamlData = Skeleton
    /\ file = UserText(FreshPlan)
    /\ isSourceMode = FALSE
    /\ sourceValue = EmptyText
    /\ calendar = <<>>
    /\ leftPanel = <<>>
    /\ pendingLoad = TRUE
    /\ awaiting = <<>>
    /\ slowDisk = FALSE
    /\ syncing = 0
    /\ now = 0
    /\ session = MaxPlanClock
    /\ last = Last("init", "", "")

SpecPlan == InitPlan /\ [][Next]_vars

----------------------------------------------------------------------------
(* A session on a slow disk: a write resolves, or fails, in a later turn of
   the event loop, and the handler that awaits it is suspended until then *)

\* the notice a handler shows when its write has resolved
AfterWrite(op) ==
    CASE op = "click" -> "deleted"
      [] op = "sync" -> "synced"
      [] op = "addTask" -> "added"
      [] OTHER -> ""

\* the notice a handler shows when its write is rejected: the catch of the sync
\* callback and the catch of the mode button; the other handlers have no catch
OnRejection(op) ==
    CASE op = "sync" -> "parseFailed"
      [] op = "leaveSource" -> "syntaxError"
      [] OTHER -> ""

\* the oldest write in flight resolves or is rejected, and its handler goes on
Resume ==
    /\ awaiting # <<>>
    /\ awaiting' = Tail(awaiting)
    /\ LET op == Head(awaiting).op
           text == Head(awaiting).text
       IN \E ok \in BOOLEAN :
            IF ok
            THEN /\ file' = text
                 /\ pendingLoad' = TRUE
                 /\ last' = Ran("written", op, AfterWrite(op), <<text>>)
                 /\ leftPanel' = IF op = "status" THEN Panel(yamlData)
                                  ELSE leftPanel
                 /\ UNCHANGED isSourceMode
            ELSE /\ last' = Last("rejected", op, OnRejection(op))
                 /\ isSourceMode' = IF op = "leaveSource" THEN TRUE
                                     ELSE isSourceMode
                 /\ UNCHANGED <<file, pendingLoad, leftPanel>>
    /\ UNCHANGED <<yamlData, sourceValue, calendar, syncing, now, session,
                   slowDisk>>

NextAwait ==
    \/ Next
    \/ Resume

\* the view opens on a plan that holds a block of A
BlockPlan == UserDoc("scheduled", "pool", <<BlockA(0, 4, 8)>>)

InitAwait ==
    /\ yamlData = Skeleton
    /\ file = UserText(BlockPlan)
    /\ isSourceMode = FALSE
    /\ sourceValue = EmptyText
    /\ calendar = <<>>
    /\ leftPanel = <<>>
    /\ pendingLoad = TRUE
    /\ awaiting = <<>>
    /\ slowDisk = TRUE
    /\ syncing = 0
    /\ now = 0
    /\ session = MaxAwaitClock
    /\ last = Last("init", "", "")

SpecAwait == InitAwait /\ [][NextAwait]_vars

----------------------------------------------------------------------------
(* Overlapping syncs: the view has loaded its file and the user has pressed
   the sync button MaxOverlap times, before any of the processes has ended *)

InitSync ==
    /\ file \in InitTexts
    /\ yamlData = Load(file)
    /\ isSourceMode = FALSE
    /\ sourceValue = EmptyText
    /\ calendar = WidgetEvents(Load(file))
    /\ leftPanel = Panel(Load(file))
    /\ pendingLoad = FALSE
    /\ awaiting = <<>>
    /\ slowDisk = FALSE
    /\ syncing = MaxOverlap
    /\ now = MaxOverlap
    /\ session = MaxOverlap
    /\ last = Last("syncClick", "", "fetching")

\* the processes end one by one, and the host delivers what the callbacks write
NextSync ==
    \/ SyncDone
    \/ SetViewData

SpecSync == InitSync /\ [][NextSync]_vars

----------------------------------------------------------------------------
(* Closing the view: the host saves what getViewData returns, then unloads the
   file, and onClose destroys the widget and the draggable *)

\* getViewData: the raw buffer in raw-text mode, the dump of the document otherwise
getViewData == IF isSourceMode THEN sourceValue ELSE Dump(yamlData)

\* the user closes the view when no sync is running: the session is over
CloseView ==
    /\ ~pendingLoad
    /\ awaiting = <<>>
    /\ now < session
    /\ syncing = 0
    /\ file' = getViewData
    /\ calendar' = <<>>
    /\ leftPanel' = <<>>
    /\ now' = session
    /\ last' = Ran("close", "", "", <<getViewData>>)
    /\ UNCHANGED <<yamlData, isSourceMode, sourceValue, pendingLoad, awaiting,
                   slowDisk, syncing, session>>

NextClose ==
    \/ Next
    \/ CloseView

SpecClose == Init /\ [][NextClose]_vars

----------------------------------------------------------------------------
(* The reconciler on its own: any document, then updateTaskStatuses *)

ReconEvents ==
    { BlockA(1, 4, 8), BlockA(2, 4, 12), LegacyB(4, 8), OpenA(4), Outlook(O1, 4),
      [BlockA(3, 8, 10) EXCEPT !.taskId = T2] }

ReconEventLists ==
    {<<>>} \cup {<<e>> : e \in ReconEvents}
           \cup {<<e1, e2>> : e1 \in ReconEvents, e2 \in ReconEvents}

ReconDocs ==
    {UserDoc(sa, sb, evs) : sa \in Statuses, sb \in Statuses, evs \in ReconEventLists}
    \cup {[insight |-> "", events |-> evs] : evs \in ReconEventLists}
    \cup {[insight |-> "", goals |-> << [role |-> "r"] >>, events |-> evs] :
            evs \in ReconEventLists}

InitReconcile ==
    /\ yamlData \in ReconDocs
    /\ file = EmptyText
    /\ isSourceMode = FALSE
    /\ sourceValue = EmptyText
    /\ calendar = <<>>
    /\ leftPanel = <<>>
    /\ pendingLoad = FALSE
    /\ awaiting = <<>>
    /\ slowDisk = FALSE
    /\ syncing = 0
    /\ now = 0
    /\ session = 0
    /\ last = Last("init", "", "")

Reconcile ==
    /\ yamlData' = updateTaskStatuses(yamlData)
    /\ last' = Last("updateTaskStatuses", "", "")
    /\ UNCHANGED <<file, isSourceMode, sourceValue, calendar, leftPanel,
                   pendingLoad, awaiting, syncing, now, session, slowDisk>>

SpecReconcile == InitReconcile /\ [][Reconcile]_vars

----------------------------------------------------------------------------
(* The change handler on its own: any document, any event of the widget *)

ChangeDocs ==
    {UserDoc(sa, "pool", evs) : sa \in {"pool", "completed"}, evs \in ReconEventLists}

\* what the widget can hand to handleEventChange: a drop from the left panel; an
\* event with no extendedProps.taskId, no end and no backgroundColor; a stored
\* block, a legacy block and an outlook event, each moved to another slot; a
\* stored block moved and left with no end
ChangeEvents ==
    { [id |-> Append(T1, 5), title |-> "A", start |-> 8, end |-> 12,
       backgroundColor |-> DropColor, type |-> "task", taskId |-> T1],
      [id |-> Append(T2, 5), title |-> "B", start |-> 8],
      [WidgetEvent(BlockA(1, 4, 8)) EXCEPT !.start = 8, !.end = 12],
      [WidgetEvent(OpenA(8)) EXCEPT !.id = Append(T1, 1)],
      [WidgetEvent(LegacyB(4, 8)) EXCEPT !.start = 8, !.end = 12],
      [WidgetEvent(Outlook(O1, 4)) EXCEPT !.start = 8, !.end = 12] }

InitChange ==
    /\ yamlData \in ChangeDocs
    /\ file = EmptyText
    /\ isSourceMode = FALSE
    /\ sourceValue = EmptyText
    /\ calendar = <<>>
    /\ leftPanel = <<>>
    /\ pendingLoad = FALSE
    /\ awaiting = <<>>
    /\ slowDisk = FALSE
    /\ syncing = 0
    /\ now = 0
    /\ session = 0
    /\ last = Last("init", "", "")

\* handleEventChange(event), up to its write; calendar holds the event handed over
ApplyChange ==
    /\ \E event \in ChangeEvents :
         /\ Len(ChangedEvents(yamlData.events, event))
              <= Max(MaxEvents, Len(yamlData.events))
         /\ calendar' = <<event>>
         /\ yamlData' = handleEventChange(yamlData, event)
         /\ last' = Ran("handleEventChange", TargetType(event), "",
                       <<Dump(yamlData')>>)
    /\ Write("handleEventChange", Dump(yamlData'))
    /\ UNCHANGED <<isSourceMode, sourceValue, leftPanel, syncing, now, session, slowDisk>>

SpecChange == InitChange /\ [][ApplyChange]_vars

----------------------------------------------------------------------------
(* Vocabulary of the properties *)

Manual == {"completed", "dropped"}

\* the positions <<g, i>> of the tasks of a document
TaskPositions(doc) ==
    UNION {{<<g, i>> : i \in DOMAIN Get(doc.goals[g], "items", <<>>)} :
             g \in DOMAIN Goals(doc)}
TaskAt(doc, pos) == doc.goals[pos[1]].items[pos[2]]

\* the time scheduled for a task: the sum of end - start over the type=task
\* events whose taskId, or id when they have no taskId, is the task's id
RECURSIVE ScheduledTicks(_, _, _)
ScheduledTicks(events, id, n) ==
    IF n = 0 THEN 0
    ELSE LET ev == events[n]
             linked == IF Has(ev, "taskId") THEN ev.taskId = id ELSE ev.id = id
             counts == Has(ev, "type") /\ ev.type = "task" /\ linked
                       /\ Has(ev, "start") /\ Has(ev, "end")
         IN (IF counts THEN ev.end - ev.start ELSE 0)
            + ScheduledTicks(events, id, n - 1)

\* the estimate of a task, one hour when it has none
EstimateTicks(task) ==
    IF Has(task, "estimated_hours") THEN task.estimated_hours ELSE TicksPerHour

\* the derivation rule of the specification, for one task of a document
FollowsRule(doc, task) ==
    LET total == ScheduledTicks(Events(doc), task.id, Len(Events(doc)))
    IN /\ total = 0 => task.status = "pool"
       /\ (total > 0 /\ total < EstimateTicks(task)) => task.status = "partial"
       /\ (total > 0 /\ total >= EstimateTicks(task)) => task.status = "scheduled"

IsSorted(events) ==
    \A i \in 1..(Len(events) - 1) : events[i].start <= events[i + 1].start

Count(events, ev) == Cardinality({i \in DOMAIN events : events[i] = ev})
Range(events) == {events[i] : i \in DOMAIN events}
OfType(events, type) == SelectSeq(events, LAMBDA ev : Get(ev, "type", "") = type)
\* the same entries, each as many times
SameBag(a, b) == \A ev \in Range(a) \cup Range(b) : Count(a, ev) = Count(b, ev)

CalendarOps == {"receive", "drop", "resize"}
Synced == last.op = "sync" /\ last.notice = "synced"

----------------------------------------------------------------------------
(* C1: after updateTaskStatuses has run on a document, every task that was not
   completed or dropped is pool when no time is scheduled for it, partial when
   some but less than its estimate is, and scheduled otherwise; the scheduled
   time counts the type=task events linked to the task and no outlook event. *)
C1_ReconcilerDerivesStatus ==
    [][last'.op = "updateTaskStatuses" =>
         \A pos \in TaskPositions(yamlData) :
            TaskAt(yamlData, pos).status \notin Manual
               => FollowsRule(yamlData', TaskAt(yamlData', pos))]_vars

\* a task that was stale is partial after the run, next to an outlook event
C1_Witness ==
    /\ last.op = "updateTaskStatuses"
    /\ Events(yamlData) = <<Outlook(O1, 4), BlockA(1, 4, 8)>>
    /\ Tasks(yamlData) = <<TaskA("partial"), TaskB("pool")>>

----------------------------------------------------------------------------
(* C2: a calendar change, a block deletion or an external sync never changes
   the status of a task that is completed or dropped, and neither does the
   reload of the text such a handler wrote; of the handlers, only the manual
   status toggle does. *)
C2_ManualStatusKept ==
    [][(\/ last'.op \in CalendarOps \cup {"click", "sync", "syncClick"}
        \/ last'.op = "setViewData" /\ file.fmt = "dump") =>
         \A pos \in TaskPositions(yamlData) :
            TaskAt(yamlData, pos).status \in Manual
               => /\ pos \in TaskPositions(yamlData')
                  /\ TaskAt(yamlData', pos).status = TaskAt(yamlData, pos).status]_vars

\* a block of a completed task was resized: by its time the task would be scheduled
C2_Witness ==
    /\ last.op = "resize"
    /\ last.target = "task"
    /\ Tasks(yamlData) = <<TaskA("completed"), TaskB("pool")>>
    /\ ScheduledTicks(Events(yamlData), T1, Len(Events(yamlData))) = TicksPerHour

----------------------------------------------------------------------------
(* C3: when a handler that adds, updates or removes events has finished (a
   calendar change, a block deletion, a merge of an external batch), every task
   that is not completed or dropped has the status the derivation rule gives
   for the events list as it is then. *)
C3_StatusesDerivedAfterMutation ==
    (\/ last.op \in CalendarOps
     \/ last.op = "click" /\ last.notice = "deleted"
     \/ Synced)
    => \A pos \in TaskPositions(yamlData) :
          TaskAt(yamlData, pos).status \notin Manual
             => FollowsRule(yamlData, TaskAt(yamlData, pos))

----------------------------------------------------------------------------
(* C4: merging the batch that was just merged once more gives the same
   document: the same events in the same order, the same statuses. *)
C4_SyncIdempotent ==
    Synced => mergeExternal(yamlData, last.target.newEvents) = yamlData

\* a batch of two was merged into a document that holds a block
C4_Witness ==
    /\ Synced
    /\ Len(last.target.newEvents) = 2
    /\ Len(Events(yamlData)) = 3

----------------------------------------------------------------------------
(* C5: a merge keeps every type=task event with all of its fields, and
   neither adds nor removes one. *)
C5_SyncKeepsTaskEvents ==
    [][(last'.op = "sync" /\ last'.notice = "synced") =>
         SameBag(OfType(Events(yamlData'), "task"),
                 OfType(Events(yamlData), "task"))]_vars

\* a merge replaced the outlook event of a plan and kept its block
C5_Witness ==
    /\ Synced
    /\ Events(yamlData) = <<BlockA(0, 4, 12), Outlook(O1, 4), Outlook(O2, 12)>>

----------------------------------------------------------------------------
(* C6: after a merge the type=outlook events of the document are exactly the
   entries of the batch, so none of the outlook events stored before remains;
   merging the empty batch into a document with two outlook events and one
   block leaves no outlook event and the block as it was. *)
C6_SyncReplacesOutlook ==
    [][(last'.op = "sync" /\ last'.notice = "synced") =>
         /\ SameBag(OfType(Events(yamlData'), "outlook"), last'.target.newEvents)
         /\ (/\ last'.target.newEvents = <<>>
             /\ Len(OfType(Events(yamlData), "outlook")) = 2
             /\ Len(OfType(Events(yamlData), "task")) = 1)
            => Events(yamlData') = OfType(Events(yamlData), "task")]_vars

\* the empty batch was merged into the plan that held two outlook events and one block
C6_Witness ==
    /\ Synced
    /\ last.target.newEvents = <<>>
    /\ Events(yamlData) = <<LegacyB(4, 8)>>
    /\ Tasks(yamlData) = <<TaskA("dropped"), TaskB("pool")>>

----------------------------------------------------------------------------
(* C7: a sync that fails (the process exits abnormally, or its output is not a
   list of event records, be it not JSON or JSON that is no list) leaves the
   document as it was (no event removed, none appended, no status changed) and
   writes nothing. *)
C7_FailedSyncKeepsDocument ==
    [][(last'.op = "sync" /\ last'.notice \in {"fetchFailed", "parseFailed"}) =>
         /\ Events(yamlData') = Events(yamlData)
         /\ Goals(yamlData') = Goals(yamlData)
         /\ file' = file]_vars

----------------------------------------------------------------------------
(* C8: after a calendar change and after a merge of an external batch the
   events list is in non-decreasing order of start, whatever its order before. *)
C8_SortedAfterChange ==
    (last.op \in CalendarOps \/ Synced) => IsSorted(Events(yamlData))

\* a block was resized in the plan whose events were stored out of order
C8_Witness ==
    /\ last.op = "resize"
    /\ Events(yamlData) = <<BlockA(0, 4, 8), Outlook(O1, 8)>>

----------------------------------------------------------------------------
(* C9: every gesture on a type=outlook event (the click that deletes, the
   move, the resize) is rejected with a notice and leaves the document as it
   was. *)
C9_OutlookReadOnly ==
    [][(last'.op \in {"click", "drop", "resize"} /\ last'.target = "outlook") =>
         /\ yamlData' = yamlData
         /\ file' = file
         /\ last'.notice # ""]_vars

----------------------------------------------------------------------------
(* C10: leaving raw-text mode with text that does not parse is rejected: the
   view stays in raw-text mode, a notice is shown, the buffer keeps the text,
   nothing is written and the document is as it was. *)
C10_InvalidTextRejected ==
    [][(last'.op = "leaveSource" /\ sourceValue = InvalidText) =>
         /\ isSourceMode'
         /\ last'.notice = "syntaxError"
         /\ sourceValue' = sourceValue
         /\ file' = file
         /\ pendingLoad' = pendingLoad
         /\ yamlData' = yamlData]_vars

\* the switch was refused while the buffer held a syntax error
C10_Witness ==
    /\ last.op = "leaveSource"
    /\ last.notice = "syntaxError"
    /\ isSourceMode
    /\ sourceValue = InvalidText
    /\ Len(Events(yamlData)) > 0

----------------------------------------------------------------------------
(* Vocabulary of the raw-text mode *)

\* the mode button was pressed in raw-text mode and the switch went through
Left == last.op = "leaveSource" /\ last.notice = ""

----------------------------------------------------------------------------
(* C11: when the user leaves raw-text mode with text that parses, the text
   written to the file is the buffer's text as it stands, in the user's own
   layout and not the serialization of what it parses to; the handler writes
   once; the view is in structured mode afterwards. *)
C11_RawTextPersistedAsIs ==
    [][(last'.op = "leaveSource" /\ Parses(sourceValue)) =>
         /\ last'.writes = <<sourceValue>>
         /\ file' = sourceValue
         /\ ~isSourceMode'
         /\ last'.notice = ""]_vars

\* text in the user's own layout was accepted and is on file
C11_Witness ==
    /\ Left
    /\ ~isSourceMode
    /\ file = UserText(UserDoc("completed", "pool", <<BlockA(0, 4, 8)>>))
    /\ last.writes = <<file>>

----------------------------------------------------------------------------
(* C12: after a successful switch from raw-text mode to structured mode no
   later write persists the document of before the edit over the accepted
   text: a sync that completes next merges its batch into the document parsed
   from the accepted text, and writes that. *)
C12_AcceptedTextIsTheDocument ==
    [][(Left /\ last'.op = "sync" /\ last'.notice = "synced") =>
         file' = Dump(mergeExternal(Load(file), last'.target.newEvents))]_vars

----------------------------------------------------------------------------
(* C13: while the view is in raw-text mode no handler changes the in-memory
   document: its events, goals and statuses stay as they were until raw-text
   mode has been left. *)
C13_NoMutationInSourceMode ==
    [][isSourceMode =>
         /\ Events(yamlData') = Events(yamlData)
         /\ Goals(yamlData') = Goals(yamlData)]_vars

----------------------------------------------------------------------------
(* Vocabulary of the events list *)

Ids(events) == [i \in DOMAIN events |-> events[i].id]
Distinct(seq) == \A i, j \in DOMAIN seq : i # j => seq[i] # seq[j]

----------------------------------------------------------------------------
(* C14: the ids of the events are pairwise distinct in every document the
   view holds: every file the view opens on and every text the user types has
   distinct event ids, and no calendar change, deletion or merge of an
   external batch gives two entries the same id. *)
C14_EventIdsUnique == Distinct(Ids(Events(yamlData)))

\* the entry of events with the given id (the first, as findIndex finds it)
Stored(events, id) == events[FindIndex(events, id, 1)]
IsStored(events, id) == FindIndex(events, id, 1) >= 1

\* events without its entry k
Remove(events, k) ==
    SubSeq(events, 1, k - 1) \o SubSeq(events, k + 1, Len(events))

\* the positions of the widget's events that a step changed or added
Touched(before, after) ==
    {k \in DOMAIN after : k \notin DOMAIN before \/ after[k] # before[k]}

\* the end and the color the handler takes from a widget event
IncomingEnd(event) ==
    IF Has(event, "end") THEN event.end ELSE event.start + TicksPerHour
IncomingColor(event) ==
    IF Has(event, "backgroundColor") THEN event.backgroundColor ELSE DropColor

\* every task that is not completed or dropped has the status the rule gives
Derived(doc) ==
    \A pos \in TaskPositions(doc) :
       TaskAt(doc, pos).status \notin Manual => FollowsRule(doc, TaskAt(doc, pos))

----------------------------------------------------------------------------
(* C15: a move or resize of a widget event whose id is in events updates that
   entry in place: its start, end, title and color are the incoming ones, its
   taskId (its id when it has none) and its type are the stored ones, and
   events has as many entries as before. *)
C15_UpdateInPlace ==
    [][(last'.op \in {"drop", "resize"} /\ Has(yamlData, "events")) =>
         \A k \in Touched(calendar, calendar') :
            LET event == calendar'[k]
                old == Stored(yamlData.events, event.id)
                new == Stored(yamlData'.events, event.id)
            IN IsStored(yamlData.events, event.id) =>
                 /\ Len(yamlData'.events) = Len(yamlData.events)
                 /\ new.start = event.start
                 /\ new.end = IncomingEnd(event)
                 /\ new.title = event.title
                 /\ new.color = IncomingColor(event)
                 /\ new.taskId = Get(old, "taskId", old.id)
                 /\ Get(new, "type", "") = Get(old, "type", "")]_vars

----------------------------------------------------------------------------
(* C16: handleEventChange for an event whose id is not in events adds exactly
   one entry and keeps the others: the new entry has type task, the taskId the
   event carries (its own id when it carries none), and the color the event
   carries (the default color of a new block when it carries none). *)
C16_AppendsNewBlock ==
    [][last'.op = "handleEventChange" =>
         LET event == calendar'[1]
             k == FindIndex(yamlData'.events, event.id, 1)
             new == yamlData'.events[k]
         IN ~IsStored(yamlData.events, event.id) =>
              /\ k >= 1
              /\ SameBag(Remove(yamlData'.events, k), yamlData.events)
              /\ Len(yamlData'.events) = Len(yamlData.events) + 1
              /\ new.type = "task"
              /\ new.taskId = (IF Has(event, "taskId") THEN event.taskId
                               ELSE event.id)
              /\ new.color = (IF Has(event, "backgroundColor")
                              THEN event.backgroundColor ELSE DropColor)]_vars

\* an event that carries neither a task nor a color was added to a stored block
C16_Witness ==
    /\ last.op = "handleEventChange"
    /\ calendar = << [id |-> Append(T2, 5), title |-> "B", start |-> 8] >>
    /\ Events(yamlData) =
         << BlockA(1, 4, 8),
            [id |-> Append(T2, 5), taskId |-> Append(T2, 5), type |-> "task",
             title |-> "B", start |-> 8, end |-> 8 + TicksPerHour,
             color |-> DropColor] >>

----------------------------------------------------------------------------
(* C17: a confirmed deletion of a block that is in events removes that entry
   and no other: the other entries stay, in the order they had; and every task
   that is not completed or dropped then has the status the rule gives for the
   time that remains scheduled. *)
C17_DeletionRemovesOneBlock ==
    [][(/\ last'.op = "click"
        /\ last'.notice = "deleted"
        /\ IsStored(Events(yamlData), last'.id)) =>
         /\ Events(yamlData') =
               Remove(Events(yamlData), FindIndex(Events(yamlData), last'.id, 1))
         /\ Derived(yamlData')]_vars

----------------------------------------------------------------------------
(* C18: the scenario of task A (estimate 2h) on a fresh plan, step by step. A
   has no block and is pool; a calendar change that leaves A with one block of
   1h makes it partial; the drop of a second block of 1h makes it scheduled;
   the deletion of the first block makes it partial again. *)
BlocksOf(doc, id) ==
    SelectSeq(Events(doc),
              LAMBDA ev : Get(ev, "type", "") = "task" /\ Get(ev, "taskId", ev.id) = id)
HourBlocks(doc, id, n) ==
    /\ Len(BlocksOf(doc, id)) = n
    /\ \A i \in 1..n : EventTicks(BlocksOf(doc, id)[i]) = TicksPerHour
HasTask(doc, id) == \E pos \in TaskPositions(doc) : TaskAt(doc, pos).id = id
StatusOf(doc, id) ==
    LET pos == CHOOSE pos \in TaskPositions(doc) : TaskAt(doc, pos).id = id
    IN TaskAt(doc, pos).status
\* the task is in the document and is neither completed nor dropped
Auto(doc, id) == HasTask(doc, id) /\ StatusOf(doc, id) \notin Manual

C18_ScenarioTrace ==
    [][/\ (/\ last'.op \in CalendarOps \cup {"click"}
           /\ Auto(yamlData, T1)
           /\ HourBlocks(yamlData', T1, 0))
          => StatusOf(yamlData', T1) = "pool"
       /\ (/\ last'.op \in CalendarOps
           /\ Auto(yamlData, T1)
           /\ HourBlocks(yamlData', T1, 1))
          => StatusOf(yamlData', T1) = "partial"
       /\ (/\ last'.op = "receive"
           /\ Auto(yamlData, T1)
           /\ StatusOf(yamlData, T1) = "partial"
           /\ HourBlocks(yamlData, T1, 1)
           /\ HourBlocks(yamlData', T1, 2))
          => StatusOf(yamlData', T1) = "scheduled"
       /\ (/\ last'.op = "click"
           /\ Auto(yamlData, T1)
           /\ StatusOf(yamlData, T1) = "scheduled"
           /\ HourBlocks(yamlData, T1, 2)
           /\ HourBlocks(yamlData', T1, 1))
          => StatusOf(yamlData', T1) = "partial"]_vars

\* the end of the scenario: the first block was deleted, the second remains
C18_Witness ==
    /\ last.op = "click"
    /\ last.notice = "deleted"
    /\ now = 4
    /\ Events(yamlData) = <<BlockA(3, 8, 12)>>
    /\ Tasks(yamlData) = <<TaskA("partial"), TaskB("pool")>>

----------------------------------------------------------------------------
(* C19 as the code has it: the toggle makes a task that is neither completed
   nor dropped completed, a completed task dropped, and gives a dropped task
   back to automatic derivation, so that it is pool when no time is scheduled
   for it and partial or scheduled otherwise; between the first toggle and that
   one, no calendar change, deletion or sync changes the task's status. *)
C19_ManualCycle ==
    [][/\ last'.op = "status" =>
            \A pos \in TaskPositions(yamlData) :
               LET old == TaskAt(yamlData, pos)
                   new == TaskAt(yamlData', pos)
               IN old.id = last'.target =>
                    /\ old.status \notin Manual => new.status = "completed"
                    /\ old.status = "completed" => new.status = "dropped"
                    /\ old.status = "dropped" =>
                         new.status \notin Manual /\ FollowsRule(yamlData', new)
       /\ last'.op \in CalendarOps \cup {"click", "sync"} =>
            \A pos \in TaskPositions(yamlData) :
               TaskAt(yamlData, pos).status \in Manual =>
                  TaskAt(yamlData', pos).status = TaskAt(yamlData, pos).status]_vars

\* a dropped task with a block of 2h was toggled: it is scheduled, not pool
C19_Witness ==
    /\ last.op = "status"
    /\ last.target = T1
    /\ Events(yamlData) = <<Outlook(O1, 8), BlockA(0, 4, 12)>>
    /\ Tasks(yamlData) = <<TaskA("scheduled"), TaskB("pool")>>

\* C19 as stated: the toggle of a dropped task makes it pool
C19_DroppedReturnsToPool ==
    [][last'.op = "status" =>
         \A pos \in TaskPositions(yamlData) :
            LET old == TaskAt(yamlData, pos)
                new == TaskAt(yamlData', pos)
            IN old.id = last'.target =>
                 /\ old.status = "pool" => new.status = "completed"
                 /\ old.status = "completed" => new.status = "dropped"
                 /\ old.status = "dropped" => new.status = "pool"]_vars

----------------------------------------------------------------------------
(* C20: a drop of a new block, a move or a resize on a document that has an
   events list makes the handler write once, and the text it writes is the
   serialization of the document as the handler leaves it: with the change
   applied, the events in order of start and the statuses derived. *)
C20_OneWritePerGesture ==
    [][(last'.op \in CalendarOps /\ Has(yamlData, "events")) =>
         /\ last'.writes = <<Dump(yamlData')>>
         /\ file' = Dump(yamlData')
         /\ \A k \in Touched(calendar, calendar') :
               \E i \in DOMAIN yamlData'.events :
                  /\ yamlData'.events[i].id = calendar'[k].id
                  /\ yamlData'.events[i].start = calendar'[k].start
                  /\ yamlData'.events[i].end = IncomingEnd(calendar'[k])
         /\ IsSorted(yamlData'.events)
         /\ Derived(yamlData')]_vars

\* a second block was dropped and the plan with both blocks is on file
C20_Witness ==
    /\ last.op = "receive"
    /\ Len(Events(yamlData)) = 2
    /\ last.writes = <<file>>
    /\ file = Dump(yamlData)
    /\ Tasks(yamlData) = <<TaskA("scheduled"), TaskB("pool")>>

----------------------------------------------------------------------------
(* C21: handleEventChange stores an event that has no end with an end one hour
   after its start, and an event that has an end with that end, be the event
   new or already in events. *)
C21_EndDefaultsToOneHour ==
    [][last'.op = "handleEventChange" =>
         LET event == calendar'[1]
         IN \E i \in DOMAIN yamlData'.events :
               /\ yamlData'.events[i].id = event.id
               /\ yamlData'.events[i].start = event.start
               /\ Has(event, "end") => yamlData'.events[i].end = event.end
               /\ ~Has(event, "end") =>
                     yamlData'.events[i].end = event.start + TicksPerHour]_vars

\* a stored block of 1h at 1:00 was moved to 2:00 by an event with no end
C21_Witness ==
    /\ last.op = "handleEventChange"
    /\ ~Has(calendar[1], "end")
    /\ calendar[1].id = Append(T1, 1)
    /\ Len(Events(yamlData)) = 1
    /\ Events(yamlData)[1].id = Append(T1, 1)
    /\ Events(yamlData)[1].start = 8
    /\ Events(yamlData)[1].end = 8 + TicksPerHour

----------------------------------------------------------------------------
(* C22: updateTaskStatuses is idempotent: a second run on the document a run
   has left changes nothing. *)
C22_ReconcilerIdempotent ==
    last.op = "updateTaskStatuses" => updateTaskStatuses(yamlData) = yamlData

\* a run has derived scheduled for the legacy block of B and pool for A, whose
\* block has no end
C22_Witness ==
    /\ last.op = "updateTaskStatuses"
    /\ Events(yamlData) = <<LegacyB(4, 8), OpenA(4)>>
    /\ Tasks(yamlData) = <<TaskA("pool"), TaskB("scheduled")>>

----------------------------------------------------------------------------
(* C23: the statuses updateTaskStatuses derives do not depend on the order of
   events: on every permutation of the events list a run leaves the same goals. *)
Permuted(events, p) == [i \in DOMAIN events |-> events[p[i]]]

----------------------------------------------------------------------------
(* C24: a task created through the add-task dialog is appended at the end of
   the items of its role, with status pool and a positive estimated_hours: the
   entered estimate when that is a positive number (1.5), and one hour when the
   field is empty, not a number, zero or negative. *)
C24_AddedTaskIsPoolAndPositive ==
    [][(last'.op = "addTask" /\ last'.notice = "added") =>
         LET g == last'.target.role
             items == yamlData'.goals[g].items
             new == items[Len(items)]
         IN /\ items = Append(Get(yamlData.goals[g], "items", <<>>), new)
            /\ new.title = last'.target.title
            /\ new.status = "pool"
            /\ new.estimated_hours > 0
            /\ new.estimated_hours =
                  (IF last'.target.hours = "1.5" THEN 6 ELSE TicksPerHour)]_vars

----------------------------------------------------------------------------
(* C25: the add-task dialog submitted with an empty title or a title of blanks
   is rejected silently: no task is added to any role, no status changes,
   nothing is written and no notice is shown. *)
C25_BlankTitleRejected ==
    [][(last'.op = "addTask" /\ last'.target.title \in {"", "  "}) =>
         /\ yamlData' = yamlData
         /\ file' = file
         /\ pendingLoad' = pendingLoad
         /\ last'.writes = <<>>
         /\ last'.notice = ""]_vars

\* a title of blanks was submitted on a plan with a block
C25_Witness ==
    /\ last.op = "addTask"
    /\ last.target.title = "  "
    /\ last.writes = <<>>
    /\ Len(Tasks(yamlData)) = 2
    /\ Len(Events(yamlData)) > 0

----------------------------------------------------------------------------
(* C26: a new block can be created by a drop only for a task that is pool or
   partial. In every state in which the user can drag (structured mode, the
   host has delivered the last write) each draggable item of the left panel is
   the item of a task of the document whose status is pool or partial; and
   every drop that happens is the drop of such a task. *)
C26_DragOnlyFromPoolOrPartial ==
    /\ [](~pendingLoad /\ ~isSourceMode =>
            \A i \in DOMAIN leftPanel :
               leftPanel[i].draggable =>
                  /\ HasTask(yamlData, leftPanel[i].id)
                  /\ StatusOf(yamlData, leftPanel[i].id) \in {"pool", "partial"})
    /\ [][last'.op = "receive" =>
            LET event == calendar'[Len(calendar')]
            IN /\ HasTask(yamlData, event.taskId)
               /\ StatusOf(yamlData, event.taskId) \in {"pool", "partial"}]_vars

\* a second block was dropped for A, which was partial and is scheduled now
C26_Witness ==
    /\ last.op = "receive"
    /\ calendar[Len(calendar)].taskId = T1
    /\ Len(BlocksOf(yamlData, T1)) = 2
    /\ StatusOf(yamlData, T1) = "scheduled"
    /\ leftPanel[1].draggable

----------------------------------------------------------------------------
(* C27: missing fields are tolerated. A drop, a move or a resize on a document
   that has no events field acts as on an empty list and leaves a document
   whose events hold exactly the incoming event, which is written; and after a
   calendar change every task that is not completed or dropped has the status
   the rule gives, where an event with no taskId counts for the task whose id
   is the event's id. *)
C27_MissingFieldsTolerated ==
    [][last'.op \in CalendarOps =>
         /\ ~Has(yamlData, "events") =>
               /\ Len(Events(yamlData')) = 1
               /\ Events(yamlData')[1].id = last'.id
               /\ file' = Dump(yamlData')
         /\ Has(yamlData, "events") => Derived(yamlData')]_vars

----------------------------------------------------------------------------
(* C30: after every load of the document from text in structured mode the
   widget holds one entry per event of the document and no other: entry i has
   the id, title, start, end and type of event i, and its taskId (the event's
   id when the event has none). *)
C30_WidgetMirrorsDocument ==
    [][(last'.op = "setViewData" /\ ~isSourceMode /\ Parses(file)) =>
         /\ yamlData' = Load(file)
         /\ Len(calendar') = Len(Events(yamlData'))
         /\ \A i \in DOMAIN calendar' :
               LET entry == calendar'[i]
                   ev == Events(yamlData')[i]
               IN /\ entry.id = ev.id
                  /\ entry.title = ev.title
                  /\ entry.start = ev.start
                  /\ Has(entry, "end") = Has(ev, "end")
                  /\ Has(ev, "end") => entry.end = ev.end
                  /\ Has(entry, "type") = Has(ev, "type")
                  /\ Has(ev, "type") => entry.type = ev.type
                  /\ entry.taskId = (IF Has(ev, "taskId") THEN ev.taskId
                                     ELSE ev.id)]_vars

\* the text a handler has written was loaded: the widget holds two entries,
\* one of them for an event with no taskId, whose taskId is its id
C30_Witness ==
    /\ last.op = "setViewData"
    /\ ~isSourceMode
    /\ now > 0
    /\ Len(calendar) = 2
    /\ \E i \in DOMAIN calendar :
          /\ ~Has(Events(yamlData)[i], "taskId")
          /\ calendar[i].taskId = calendar[i].id

----------------------------------------------------------------------------
(* C28: handlers do not interleave. While a handler is suspended at the await
   of its write, no other handler changes the in-memory document and the host
   does not reload it: the next thing to touch the document comes after the
   write has resolved and the handler has gone on. *)
C28_HandlersDoNotInterleave ==
    [][awaiting # <<>> =>
         /\ yamlData' = yamlData
         /\ last'.op # "setViewData"]_vars

----------------------------------------------------------------------------
(* C29: when the write of a calendar change, of a deletion or of a merge is
   rejected, the handler shows a notice, and the in-memory document keeps the
   change: when no other handler ran in between, it is the document whose
   serialization was to be written. *)
C29_FailedWriteIsReported ==
    [][(last'.op = "rejected" /\ last'.target \in CalendarOps \cup {"click", "sync"}) =>
         /\ last'.notice # ""
         /\ yamlData' = yamlData
         /\ last.op = last'.target => Dump(yamlData') = Head(awaiting).text]_vars

----------------------------------------------------------------------------
(* C31: a click on a type=task block whose confirmation the user declines
   leaves the document as it was: the event stays in events, no status
   changes, nothing is written, and the widget keeps the block. *)
C31_DeclinedDeletionKeepsDocument ==
    [][(last'.op = "click" /\ last'.target = "task" /\ ~last'.answer) =>
         /\ yamlData' = yamlData
         /\ file' = file
         /\ pendingLoad' = pendingLoad
         /\ last'.writes = <<>>
         /\ last'.notice = ""
         /\ calendar' = calendar]_vars

\* the deletion of the block of a scheduled task was declined
C31_Witness ==
    /\ last.op = "click"
    /\ last.target = "task"
    /\ ~last.answer
    /\ IsStored(Events(yamlData), last.id)
    /\ HasTask(yamlData, T1)
    /\ StatusOf(yamlData, T1) = "scheduled"

----------------------------------------------------------------------------
(* C32: of two sync invocations that overlap and receive the same batch, the
   second leaves the events list the first has left, which is the list a
   single invocation leaves: whether the second callback runs right after the
   first or after the host has delivered what the first wrote, no record of
   the batch appears twice and no type=task event is lost. *)
C32_OverlappingSyncsAsOne ==
    [][(/\ last'.op = "sync"
        /\ last'.notice = "synced"
        /\ \/ last.op = "sync" /\ last.notice = "synced"
              /\ last.target = last'.target
           \/ /\ last.op = "setViewData"
              /\ file.fmt = "dump"
              /\ SameBag(OfType(Events(yamlData), "outlook"),
                         last'.target.newEvents)) =>
         /\ Events(yamlData') = Events(yamlData)
         /\ Len(OfType(Events(yamlData'), "outlook")) = Len(last'.target.newEvents)
         /\ OfType(Events(yamlData'), "task") = OfType(Events(yamlData), "task")]_vars

\* both invocations have merged the batch of two into the plan that held a block
C32_Witness ==
    /\ Synced
    /\ syncing = 0
    /\ session = MaxOverlap
    /\ last.target.newEvents = <<Outlook(O2, 12), Outlook(O1, 4)>>
    /\ Events(yamlData) = <<BlockA(0, 4, 8), Outlook(O1, 4), Outlook(O2, 12)>>

----------------------------------------------------------------------------
(* C33: every text that is written to the file, by a handler through
   vault.modify or by the host from getViewData, is text that yaml.load
   accepts; so a step that changes the file never leaves text with a syntax
   error in it. *)
C33_WrittenTextParses ==
    [][/\ \A i \in DOMAIN last'.writes : last'.writes[i].fmt # "invalid"
       /\ file' # file => file'.fmt # "invalid"]_vars

----------------------------------------------------------------------------
(* C34: a calendar change (eventReceive, eventDrop, eventResize) that reaches
   its write leaves the insight as it was, keeps the goals in their order with
   every field of every role and of every task but the task's status, keeps
   every event whose id is not the incoming one as it was, field by field, and
   makes the events list longer by one entry at most. *)

\* a task without its status; a role with its tasks without their statuses
Unreconciled(task) == [k \in DOMAIN task \ {"status"} |-> task[k]]
UnreconciledRole(role) ==
    IF Has(role, "items")
    THEN [role EXCEPT !.items = [i \in DOMAIN @ |-> Unreconciled(@[i])]]
    ELSE role

\* the events of a list whose id is not id
Untargeted(events, id) == SelectSeq(events, LAMBDA ev : ev.id # id)

C34_ChangeLeavesTheRestAlone ==
    [][(last'.op \in {"receive", "drop", "resize"} /\ last'.writes # <<>>) =>
         /\ DOMAIN yamlData' = DOMAIN yamlData
         /\ Get(yamlData', "insight", "") = Get(yamlData, "insight", "")
         /\ Len(Goals(yamlData')) = Len(Goals(yamlData))
         /\ \A g \in DOMAIN Goals(yamlData) :
                UnreconciledRole(yamlData'.goals[g]) = UnreconciledRole(yamlData.goals[g])
         /\ SameBag(Untargeted(Events(yamlData'), last'.id),
                    Untargeted(Events(yamlData), last'.id))
         /\ Len(Events(yamlData')) <= Len(Events(yamlData)) + 1]_vars

\* a block was moved behind two imported events: the list was sorted again, and
\* the plan still holds the note, both tasks and both imported events
C34_Witness ==
    /\ last.op = "drop"
    /\ last.writes # <<>>
    /\ Get(yamlData, "insight", "") = "note"
    /\ Len(Tasks(yamlData)) = 2
    /\ Len(Events(yamlData)) = 3
    /\ Len(OfType(Events(yamlData), "outlook")) = 2
    /\ Events(yamlData)[3].id = last.id

----------------------------------------------------------------------------
(* C35: the click on the status icon of a task that is partial or scheduled
   makes it completed and leaves the events list as it was; the click on the
   icon of a dropped task gives it the status that follows from the type=task
   events linked to it: pool when no time is scheduled for it, partial when
   the time is less than its estimate, scheduled otherwise. *)
C35_ToggleCompletesOrDerives ==
    [][last'.op = "status" =>
         \A pos \in TaskPositions(yamlData) :
            LET old == TaskAt(yamlData, pos)
                new == TaskAt(yamlData', pos)
                total == ScheduledTicks(Events(yamlData), old.id, Len(Events(yamlData)))
            IN old.id = last'.target =>
                 /\ old.status \in {"partial", "scheduled"} =>
                      /\ new.status = "completed"
                      /\ DOMAIN yamlData' = DOMAIN yamlData
                      /\ Events(yamlData') = Events(yamlData)
                 /\ old.status = "dropped" =>
                      /\ Events(yamlData') = Events(yamlData)
                      /\ new.status = "pool" <=> total = 0
                      /\ new.status = "partial" <=>
                           (total > 0 /\ total < EstimateTicks(old))
                      /\ new.status = "scheduled" <=>
                           (total > 0 /\ total >= EstimateTicks(old))]_vars

\* task A was completed by a click while its block of one hour was on the
\* calendar, and the block is still there
C35_Witness ==
    /\ last.op = "status"
    /\ last.target = T1
    /\ StatusOf(yamlData, T1) = "completed"
    /\ Events(yamlData) = <<BlockA(0, 4, 8)>>

----------------------------------------------------------------------------
(* C36: when the host delivers the text of the file while the view is in
   raw-text mode, the document, the widget and the left panel stay as they
   are, the view stays in raw-text mode, and the buffer holds the delivered
   text afterwards, whatever the user had typed into it; so after the merge of
   a sync has written the document during raw-text mode, the buffer holds the
   text the merge wrote. *)
C36_DeliveryReplacesBuffer ==
    [][(last'.op = "setViewData" /\ isSourceMode) =>
         /\ yamlData' = yamlData
         /\ calendar' = calendar
         /\ leftPanel' = leftPanel
         /\ isSourceMode'
         /\ sourceValue' = file
         /\ last'.target = "replaced" <=> sourceValue # file
         /\ (last.op = "sync" /\ last.writes # <<>>) =>
              sourceValue' = last.writes[1]]_vars

\* a sync ended while the view was in raw-text mode: the buffer was replaced by
\* the text the merge wrote, with the imported event in it
C36_Witness ==
    /\ last.op = "setViewData"
    /\ last.target = "replaced"
    /\ isSourceMode
    /\ sourceValue = Dump(yamlData)
    /\ Len(OfType(Events(yamlData), "outlook")) > 0
    /\ syncing = 0

====
